---- MODULE Spec2Model ----
(***************************************************************************)
(* Dark-current subtraction of stcal (src/stcal/dark_current/dark_sub.py). *)
(*                                                                         *)
(* Arrays.  A 2-D (row, column) plane is a function over Pixels; a cube    *)
(* (group, row, column) is a sequence of planes; a 4-D array is a sequence *)
(* of cubes.  Sequences are 1-based, so numpy index k is element k+1.      *)
(* A 3-D dark is held as a record with rank = 3 whose data is a one-       *)
(* element sequence holding its cube; len(data.shape) is the rank field.   *)
(*                                                                         *)
(* Numbers.  A floating point value is [nan, v]: NaN, or the exact         *)
(* rational v / Den.  Den is a common multiple of every frame count a mean *)
(* divides by, so every mean the code takes is exact in the model.         *)
(* Floating point rounding is not modelled.                                *)
(*                                                                         *)
(* Quality flags.  pixeldq and the groupdq of a 3-D dark are planes of     *)
(* naturals; the groupdq of a 4-D dark is the sequence of the planes       *)
(* groupdq[i, 0, :, :], the only ones the code reads.                      *)
(*                                                                         *)
(* Exceptions.  An index past the end of an axis raises IndexError: the    *)
(* call ends with outcome = "raised" and returns nothing.                  *)
(***************************************************************************)
EXTENDS Integers, Sequences, FiniteSets, TLC

VARIABLES
    science_data,           \* the caller's ScienceData object
    dark_data,              \* the caller's DarkData object
    dark_output,            \* <<>> (None) or <<path>>
    call,                   \* the entry point the caller invokes, with its arguments
    pc,                     \* position in the invoked function
    groups_to_extrapolate,  \* local of do_correction_data (0: not computed)
    averaged_dark,          \* local of do_correction_data: <<>> (None) or <<DarkData>>
    output_data,            \* local of do_correction_data: <<>> or <<ScienceData>>
    outcome,                \* "running", "returned" or "raised"
    ret_sci,                \* returned science object: <<>> or <<ScienceData>>
    ret_dark,               \* returned dark object: <<>> (None) or <<DarkData>>
    sci_in,                 \* the science object as it was before the call
    dark_in,                \* the dark object as it was before the call
    avg_src,                \* <<>> or <<the dark handed to a frame averager>>
    applied                 \* <<>> or <<the dark handed to subtract_dark>>

vars == <<science_data, dark_data, dark_output, call, pc, groups_to_extrapolate,
          averaged_dark, output_data, outcome, ret_sci, ret_dark, sci_in, dark_in,
          avg_src, applied>>

----------------------------------------------------------------------------
(* Bounds of the model *)

MaxInts == 2
MaxSciGroups == 2
MaxDrkGroups == 3
MaxNFrames == 2
MaxGroupGap == 1
MaxExtrapolate == 2

Pixels == {1, 2}
DqFlags == {0, 1, 2}
None == 0

----------------------------------------------------------------------------
(* Floating point values *)

RECURSIVE Factorial(_)
Factorial(n) == IF n <= 1 THEN 1 ELSE n * Factorial(n - 1)

Den == Factorial(MaxNFrames)

NaN == [nan |-> TRUE, v |-> 0]
FNum(x) == [nan |-> FALSE, v |-> x]
FInt(n) == FNum(n * Den)

FAdd(a, b) == IF a.nan \/ b.nan THEN NaN ELSE FNum(a.v + b.v)
FSub(a, b) == IF a.nan \/ b.nan THEN NaN ELSE FNum(a.v - b.v)
FScale(k, a) == IF a.nan THEN NaN ELSE FNum(k * a.v)

PlaneAdd(a, b) == [p \in Pixels |-> FAdd(a[p], b[p])]
PlaneSub(a, b) == [p \in Pixels |-> FSub(a[p], b[p])]
PlaneScale(k, a) == [p \in Pixels |-> FScale(k, a[p])]

RECURSIVE FSum(_, _)
FSum(planes, p) ==
    IF planes = <<>> THEN FNum(0)
    ELSE FAdd(Head(planes)[p], FSum(Tail(planes), p))

\* numpy's mean(axis=0) of a slice of planes; the mean of an empty slice is NaN
PlaneMean(planes) ==
    [p \in Pixels |->
        IF planes = <<>> \/ FSum(planes, p).nan THEN NaN
        ELSE FNum(FSum(planes, p).v \div Len(planes))]

\* numpy slice arr[start:end] of a sequence, 0-based, clipped to the length
Slice(arr, start, end) ==
    LET hi == IF end < Len(arr) THEN end ELSE Len(arr)
    IN  IF start >= hi THEN <<>> ELSE SubSeq(arr, start + 1, hi)

RECURSIVE BitOr(_, _)
BitOr(a, b) ==
    IF a = 0 THEN b
    ELSE IF b = 0 THEN a
    ELSE (IF a % 2 = 1 \/ b % 2 = 1 THEN 1 ELSE 0) + 2 * BitOr(a \div 2, b \div 2)

PlaneOr(a, b) == [p \in Pixels |-> BitOr(a[p], b[p])]

----------------------------------------------------------------------------
(* Shapes *)

Rank(dark) == dark.rank
DarkNInts(dark) == IF Rank(dark) = 4 THEN Len(dark.data) ELSE 1
DarkNGroups(dark) == Len(dark.data[1])
SciNInts(sci) == Len(sci.data)
SciNGroups(sci) == Len(sci.data[1])

----------------------------------------------------------------------------
(* dark_class.DarkData(dims): a new dark object, zero-filled *)

ZeroPlane == [p \in Pixels |-> FNum(0)]
ZeroDq == [p \in Pixels |-> 0]

DarkData(rank, nints, ngroups) ==
    [rank |-> rank,
     data |-> [i \in 1..nints |-> [g \in 1..ngroups |-> ZeroPlane]],
     groupdq |-> [i \in 1..nints |-> ZeroDq],
     exp_nframes |-> None, exp_ngroups |-> None, exp_groupgap |-> None,
     save |-> FALSE, output_name |-> <<>>]

----------------------------------------------------------------------------
(* Frame accounting, do_correction_data lines 103-114 *)

total_frames(ngroups, nframes, groupgap) ==
    ngroups * nframes + (ngroups - 1) * groupgap

\* faulty variant: the quotient is rounded down
CeilFloor(a, b) == a \div b

\* np.ceil(a / b) for integers a >= 0 and b >= 1
Ceil(a, b) == (a + b - 1) \div b

frames_to_extrapolate(sci, dark) ==
    total_frames(SciNGroups(sci), sci.exp_nframes, sci.exp_groupgap)
        - total_frames(DarkNGroups(dark), dark.exp_nframes, dark.exp_groupgap)

GroupsToExtrapolate(sci, dark) ==
    Ceil(frames_to_extrapolate(sci, dark) + dark.exp_groupgap,
         dark.exp_nframes + dark.exp_groupgap)

----------------------------------------------------------------------------
(* extrapolate_dark *)

\* arr[-2] of an array with fewer than two groups raises IndexError
ExtrapolateRaises(dark) == DarkNGroups(dark) < 2

\* faulty variant: every new group is one rate step above the last group
extrapolate_int_one_step(arr, ngroups) ==
    LET last == arr[Len(arr)]
        rate_arr == PlaneSub(last, arr[Len(arr) - 1])
    IN  arr \o [k \in 1..ngroups |-> PlaneAdd(rate_arr, last)]

extrapolate_int(arr, ngroups) ==
    LET last == arr[Len(arr)]
        rate_arr == PlaneSub(last, arr[Len(arr) - 1])
        new_groups == [k \in 1..ngroups |-> PlaneAdd(PlaneScale(k, rate_arr), last)]
    IN  arr \o new_groups

extrapolate_dark(dark, ngroups) ==
    [dark EXCEPT
        !.data = [i \in 1..Len(dark.data) |-> extrapolate_int(dark.data[i], ngroups)],
        !.exp_ngroups = @ + ngroups]

----------------------------------------------------------------------------
(* average_dark_frames_3d, average_dark_frames_4d *)

\* the loop body: one target group from the source frames [start, start+nframes)
AverageGroup(cube, start, nframes) ==
    IF nframes = 1 THEN cube[start + 1]
    ELSE PlaneMean(Slice(cube, start, start + nframes))

\* the group loop; start advances by nframes + groupgap from 0
AverageCube(cube, ngroups, nframes, groupgap) ==
    [g \in 1..ngroups |-> AverageGroup(cube, (g - 1) * (nframes + groupgap), nframes)]

\* dark_data.data[start] past the end of the group axis raises IndexError;
\* a slice past the end is clipped and raises nothing
AverageRaises(dark, ngroups, nframes, groupgap) ==
    /\ nframes = 1
    /\ \E g \in 1..ngroups : (g - 1) * (nframes + groupgap) >= DarkNGroups(dark)

average_dark_frames_3d(dark, ngroups, nframes, groupgap) ==
    [DarkData(3, 1, ngroups) EXCEPT
        !.groupdq = dark.groupdq,
        !.data = <<AverageCube(dark.data[1], ngroups, nframes, groupgap)>>,
        !.exp_nframes = nframes,
        !.exp_ngroups = ngroups,
        !.exp_groupgap = groupgap]

average_dark_frames_4d(dark, nints, ngroups, nframes, groupgap) ==
    LET dint == Len(dark.data)
        num_ints == IF dint > nints THEN nints ELSE dint
        avg_dark == DarkData(4, dint, ngroups)
    IN  [avg_dark EXCEPT
            !.groupdq = dark.groupdq,
            !.data = [it \in 1..dint |->
                        IF it <= num_ints
                        THEN AverageCube(dark.data[it], ngroups, nframes, groupgap)
                        ELSE avg_dark.data[it]],
            !.exp_nframes = nframes,
            !.exp_ngroups = ngroups,
            !.exp_groupgap = groupgap]

----------------------------------------------------------------------------
(* subtract_dark *)

IntStart(sci) == IF sci.exp_intstart = None THEN 1 ELSE sci.exp_intstart

\* faulty variant: the flags of the first integration only
CollapseDqFirst(groupdq, n) == groupdq[1]

\* groupdq[0, 0] OR groupdq[1, 0] OR ... OR groupdq[n-1, 0], in loop order
RECURSIVE CollapseDq(_, _)
CollapseDq(groupdq, n) ==
    IF n <= 1 THEN groupdq[1]
    ELSE PlaneOr(CollapseDq(groupdq, n - 1), groupdq[n])

DarkDq(dark) ==
    IF Rank(dark) = 4 THEN CollapseDq(dark.groupdq, DarkNInts(dark))
    ELSE dark.groupdq[1]

\* faulty variant: the starting integration number is not checked
DarkSciAnyStart(sci, dark, i) ==
    IF Rank(dark) = 4
    THEN IF i - 1 < DarkNInts(dark) THEN dark.data[i] ELSE dark.data[Len(dark.data)]
    ELSE dark.data[1]

\* the dark cube applied to science integration i (1-based)
DarkSci(sci, dark, i) ==
    IF Rank(dark) = 4
    THEN IF i - 1 < DarkNInts(dark) /\ IntStart(sci) = 1
         THEN dark.data[i]
         ELSE dark.data[Len(dark.data)]
    ELSE dark.data[1]

\* dark_sci[j] past the end of the dark's group axis raises IndexError
SubtractRaises(sci, dark) == SciNGroups(sci) > DarkNGroups(dark)

subtract_dark(sci, dark) ==
    [sci EXCEPT
        !.pixeldq = PlaneOr(sci.pixeldq, DarkDq(dark)),
        !.data = [i \in 1..SciNInts(sci) |->
                    [j \in 1..SciNGroups(sci) |->
                        PlaneSub(sci.data[i][j], DarkSci(sci, dark, i)[j])]]]

----------------------------------------------------------------------------
(* do_correction_data: the decisions *)

DarkFallsShort(sci, dark) == frames_to_extrapolate(sci, dark) > 0

\* faulty variant: the two cadence tests joined by "and"
DarkCoarserBoth(sci, dark) ==
    /\ dark.exp_nframes > sci.exp_nframes
    /\ dark.exp_groupgap > sci.exp_groupgap

DarkCoarser(sci, dark) ==
    \/ dark.exp_nframes > sci.exp_nframes
    \/ dark.exp_groupgap > sci.exp_groupgap

CadenceMatches(sci, dark) ==
    /\ sci.exp_nframes = dark.exp_nframes
    /\ sci.exp_groupgap = dark.exp_groupgap

\* dark_data.data[np.isnan(dark_data.data)] = 0.0
ReplaceNaN(dark) ==
    [dark EXCEPT !.data =
        [i \in 1..Len(dark.data) |->
            [g \in 1..Len(dark.data[i]) |->
                [p \in Pixels |->
                    IF dark.data[i][g][p].nan THEN FNum(0) ELSE dark.data[i][g][p]]]]]

\* faulty variant: the output name is stored, the save flag is not set
MarkForSavingNoFlag(dark, path) ==
    [dark EXCEPT !.output_name = path]

MarkForSaving(dark, path) ==
    [dark EXCEPT !.save = TRUE, !.output_name = path]

----------------------------------------------------------------------------
(* The objects the callers construct *)

SciCube(nints, ngroups) ==
    [i \in 1..nints |-> [j \in 1..ngroups |-> [p \in Pixels |-> FInt(20 + 7 * i + 3 * j + p)]]]

\* a dark ramp that is not linear in the group index; nangroup = 0 leaves it
\* free of NaN, nangroup = g puts NaN in pixel 1 of group g of every integration
DarkCube(nints, ngroups, nangroup) ==
    [i \in 1..nints |->
        [g \in 1..ngroups |->
            [p \in Pixels |-> IF g = nangroup /\ p = 1 THEN NaN ELSE FInt(g * g + 3 * i + p)]]]

ScienceInputs(intstarts, dqs) ==
    { [data |-> SciCube(ni, ng),
       pixeldq |-> [p \in Pixels |-> IF p = 1 THEN dq ELSE 0],
       exp_nframes |-> nf, exp_groupgap |-> gap,
       exp_intstart |-> s, cal_step |-> "NONE"] :
        ni \in 1..MaxInts, ng \in 1..MaxSciGroups, nf \in 1..MaxNFrames,
        gap \in 0..MaxGroupGap, s \in intstarts, dq \in dqs }

DarkShapes == {<<3, 1>>} \cup {<<4, ni>> : ni \in 1..MaxInts}

DarkInputs(maxgroups, cadences, dqs) ==
    UNION { { [rank |-> sh[1],
               data |-> DarkCube(sh[2], ng, nan),
               groupdq |-> [i \in 1..sh[2] |-> [p \in Pixels |-> dq[i]]],
               exp_nframes |-> cad[1], exp_groupgap |-> cad[2], exp_ngroups |-> ng,
               save |-> FALSE, output_name |-> <<>>] :
                nan \in 0..ng, dq \in [1..sh[2] -> dqs], cad \in cadences }
            : sh \in DarkShapes, ng \in 1..maxgroups }

Cadences == (1..MaxNFrames) \X (0..MaxGroupGap)

MaxTotalFrames == total_frames(MaxSciGroups, MaxNFrames, MaxGroupGap)

NoArgs == [op |-> "", nints |-> 0, ngroups |-> 0, nframes |-> 0, groupgap |-> 0]

Start(sci, dark, out, c) ==
    /\ science_data = sci
    /\ dark_data = dark
    /\ dark_output = out
    /\ call = c
    /\ pc = "start"
    /\ groups_to_extrapolate = 0
    /\ averaged_dark = <<>>
    /\ output_data = <<>>
    /\ outcome = "running"
    /\ ret_sci = <<>>
    /\ ret_dark = <<>>
    /\ sci_in = sci
    /\ dark_in = dark
    /\ avg_src = <<>>
    /\ applied = <<>>

----------------------------------------------------------------------------
(* do_correction_data *)

Raise ==
    /\ outcome' = "raised"
    /\ pc' = "done"

\* lines 72-115: frame accounting, and the extrapolation of a dark that falls short
DoCorrectionFrames ==
    /\ call.op = "do_correction_data"
    /\ pc = "start"
    /\ IF DarkFallsShort(science_data, dark_data)
       THEN /\ groups_to_extrapolate' = GroupsToExtrapolate(science_data, dark_data)
            /\ IF ExtrapolateRaises(dark_data)
               THEN Raise /\ UNCHANGED dark_data
               ELSE /\ dark_data' = extrapolate_dark(dark_data, groups_to_extrapolate')
                    /\ pc' = "cadence"
                    /\ UNCHANGED outcome
       ELSE /\ pc' = "cadence"
            /\ UNCHANGED <<groups_to_extrapolate, dark_data, outcome>>
    /\ UNCHANGED <<science_data, dark_output, call, averaged_dark, output_data,
                   ret_sci, ret_dark, sci_in, dark_in, avg_src, applied>>

\* lines 117-127: the dark is coarser than the science data
DoCorrectionSkip ==
    /\ call.op = "do_correction_data"
    /\ pc = "cadence"
    /\ DarkCoarser(science_data, dark_data)
    /\ science_data' = [science_data EXCEPT !.cal_step = "SKIPPED"]
    /\ ret_sci' = <<science_data'>>
    /\ ret_dark' = <<>>
    /\ outcome' = "returned"
    /\ pc' = "done"
    /\ UNCHANGED <<dark_data, dark_output, call, groups_to_extrapolate, averaged_dark,
                   output_data, sci_in, dark_in, avg_src, applied>>

\* lines 129-130
DoCorrectionReplaceNaN ==
    /\ call.op = "do_correction_data"
    /\ pc = "cadence"
    /\ ~DarkCoarser(science_data, dark_data)
    /\ dark_data' = ReplaceNaN(dark_data)
    /\ pc' = "subtract"
    /\ UNCHANGED <<science_data, dark_output, call, groups_to_extrapolate, averaged_dark,
                   output_data, outcome, ret_sci, ret_dark, sci_in, dark_in, avg_src,
                   applied>>

\* lines 134-145 and 169-171: matching cadences, the dark is subtracted as it is
DoCorrectionDirect ==
    /\ call.op = "do_correction_data"
    /\ pc = "subtract"
    /\ CadenceMatches(science_data, dark_data)
    /\ applied' = <<dark_data>>
    /\ IF SubtractRaises(science_data, dark_data)
       THEN Raise /\ UNCHANGED <<dark_data, averaged_dark, output_data, ret_sci, ret_dark>>
       ELSE /\ dark_data' = IF dark_output # <<>>
                            THEN MarkForSaving(dark_data, dark_output)
                            ELSE dark_data
            /\ averaged_dark' = IF dark_output # <<>> THEN <<dark_data'>> ELSE <<>>
            /\ output_data' =
                 <<[subtract_dark(science_data, dark_data) EXCEPT !.cal_step = "COMPLETE"]>>
            /\ ret_sci' = output_data'
            /\ ret_dark' = averaged_dark'
            /\ outcome' = "returned"
            /\ pc' = "done"
    /\ UNCHANGED <<science_data, dark_output, call, groups_to_extrapolate, sci_in,
                   dark_in, avg_src>>

\* the frame-averaged dark of lines 153-164
AveragedDark(sci, dark, out) ==
    LET avg == IF Rank(dark) = 4
               THEN average_dark_frames_4d(dark, SciNInts(sci), SciNGroups(sci),
                                           sci.exp_nframes, sci.exp_groupgap)
               ELSE average_dark_frames_3d(dark, SciNGroups(sci),
                                           sci.exp_nframes, sci.exp_groupgap)
    IN  IF out # <<>> THEN MarkForSaving(avg, out) ELSE avg

\* lines 147-171: differing cadences, a frame-averaged dark is subtracted
DoCorrectionAverage ==
    /\ call.op = "do_correction_data"
    /\ pc = "subtract"
    /\ ~CadenceMatches(science_data, dark_data)
    /\ avg_src' = <<dark_data>>
    /\ IF AverageRaises(dark_data, SciNGroups(science_data),
                        science_data.exp_nframes, science_data.exp_groupgap)
       THEN Raise /\ UNCHANGED <<averaged_dark, output_data, ret_sci, ret_dark, applied>>
       ELSE /\ averaged_dark' = <<AveragedDark(science_data, dark_data, dark_output)>>
            /\ applied' = averaged_dark'
            /\ output_data' =
                 <<[subtract_dark(science_data, averaged_dark'[1])
                        EXCEPT !.cal_step = "COMPLETE"]>>
            /\ ret_sci' = output_data'
            /\ ret_dark' = averaged_dark'
            /\ outcome' = "returned"
            /\ pc' = "done"
    /\ UNCHANGED <<science_data, dark_data, dark_output, call, groups_to_extrapolate,
                   sci_in, dark_in>>

Intstarts == {None, 1, 2}

InitCorrection ==
    \E sci \in ScienceInputs(Intstarts, {1}),
       dark \in DarkInputs(MaxDrkGroups, Cadences, {2}),
       out \in {<<>>, <<"dark.fits">>} :
        Start(sci, dark, out, [NoArgs EXCEPT !.op = "do_correction_data"])

NextCorrection ==
    \/ DoCorrectionFrames
    \/ DoCorrectionSkip
    \/ DoCorrectionReplaceNaN
    \/ DoCorrectionDirect
    \/ DoCorrectionAverage

----------------------------------------------------------------------------
(* The sub-operations, called on their own *)

\* extrapolate_dark(dark_data, ngroups): extends the caller's dark in place
CallExtrapolateDark ==
    /\ call.op = "extrapolate_dark"
    /\ pc = "start"
    /\ IF ExtrapolateRaises(dark_data)
       THEN Raise /\ UNCHANGED dark_data
       ELSE /\ dark_data' = extrapolate_dark(dark_data, call.ngroups)
            /\ outcome' = "returned"
            /\ pc' = "done"
    /\ UNCHANGED <<science_data, dark_output, call, groups_to_extrapolate, averaged_dark,
                   output_data, ret_sci, ret_dark, sci_in, dark_in, avg_src, applied>>

\* subtract_dark(science_data, dark_data)
CallSubtractDark ==
    /\ call.op = "subtract_dark"
    /\ pc = "start"
    /\ applied' = <<dark_data>>
    /\ IF SubtractRaises(science_data, dark_data)
       THEN Raise /\ UNCHANGED ret_sci
       ELSE /\ ret_sci' = <<subtract_dark(science_data, dark_data)>>
            /\ outcome' = "returned"
            /\ pc' = "done"
    /\ UNCHANGED <<science_data, dark_data, dark_output, call, groups_to_extrapolate,
                   averaged_dark, output_data, ret_dark, sci_in, dark_in, avg_src>>

\* average_dark_frames_3d(dark_data, ngroups, nframes, groupgap)
CallAverage3d ==
    /\ call.op = "average_dark_frames_3d"
    /\ pc = "start"
    /\ avg_src' = <<dark_data>>
    /\ IF AverageRaises(dark_data, call.ngroups, call.nframes, call.groupgap)
       THEN Raise /\ UNCHANGED ret_dark
       ELSE /\ ret_dark' = <<average_dark_frames_3d(dark_data, call.ngroups,
                                                    call.nframes, call.groupgap)>>
            /\ outcome' = "returned"
            /\ pc' = "done"
    /\ UNCHANGED <<science_data, dark_data, dark_output, call, groups_to_extrapolate,
                   averaged_dark, output_data, ret_sci, sci_in, dark_in, applied>>

\* average_dark_frames_4d(dark_data, nints, ngroups, nframes, groupgap)
CallAverage4d ==
    /\ call.op = "average_dark_frames_4d"
    /\ pc = "start"
    /\ avg_src' = <<dark_data>>
    /\ IF AverageRaises(dark_data, call.ngroups, call.nframes, call.groupgap)
       THEN Raise /\ UNCHANGED ret_dark
       ELSE /\ ret_dark' = <<average_dark_frames_4d(dark_data, call.nints, call.ngroups,
                                                    call.nframes, call.groupgap)>>
            /\ outcome' = "returned"
            /\ pc' = "done"
    /\ UNCHANGED <<science_data, dark_data, dark_output, call, groups_to_extrapolate,
                   averaged_dark, output_data, ret_sci, sci_in, dark_in, applied>>

AnyScience == CHOOSE sci \in ScienceInputs({None}, {0}) : TRUE

InitExtrapolate ==
    \E dark \in DarkInputs(MaxDrkGroups, Cadences, {0}), n \in 0..MaxExtrapolate :
        Start(AnyScience, dark, <<>>,
              [NoArgs EXCEPT !.op = "extrapolate_dark", !.ngroups = n])

InitSubtract ==
    \E sci \in ScienceInputs(Intstarts, DqFlags),
       dark \in DarkInputs(MaxDrkGroups, {<<1, 0>>}, DqFlags) :
        Start(sci, dark, <<>>, [NoArgs EXCEPT !.op = "subtract_dark"])

InitAverage ==
    \E dark \in DarkInputs(MaxTotalFrames, {<<1, 0>>}, {1}),
       ni \in 1..MaxInts, ng \in 1..MaxSciGroups, cad \in Cadences :
        Start(AnyScience, dark, <<>>,
              [op |-> IF Rank(dark) = 4 THEN "average_dark_frames_4d"
                      ELSE "average_dark_frames_3d",
               nints |-> IF Rank(dark) = 4 THEN ni ELSE 0,
               ngroups |-> ng, nframes |-> cad[1], groupgap |-> cad[2]])

NextAverage == CallAverage3d \/ CallAverage4d

Init == InitCorrection \/ InitExtrapolate \/ InitSubtract \/ InitAverage

Next ==
    \/ NextCorrection
    \/ CallExtrapolateDark
    \/ CallSubtractDark
    \/ NextAverage

Spec == Init /\ [][Next]_vars

----------------------------------------------------------------------------
(* Properties *)

InCorrection == call.op = "do_correction_data"
Returned == pc = "done" /\ outcome = "returned"
SciTotal == total_frames(SciNGroups(sci_in), sci_in.exp_nframes, sci_in.exp_groupgap)
DrkTotal == total_frames(DarkNGroups(dark_in), dark_in.exp_nframes, dark_in.exp_groupgap)
CoarserIn ==
    dark_in.exp_nframes > sci_in.exp_nframes \/ dark_in.exp_groupgap > sci_in.exp_groupgap
MatchesIn ==
    dark_in.exp_nframes = sci_in.exp_nframes /\ dark_in.exp_groupgap = sci_in.exp_groupgap

\* C1: when the dark is coarser than the science data (drk_nframes > sci_nframes
\* or drk_groupgap > sci_groupgap), for a 3-D and for a 4-D dark, short in total
\* frames or not, do_correction_data returns a science object whose data equals
\* the input data, with cal_step SKIPPED, and None as the second value; nothing
\* is averaged and nothing is subtracted.  The only run that returns nothing
\* is the IndexError of extrapolate_dark on a short dark of fewer than two groups.
C1_SkipReturnsInput ==
    (InCorrection /\ pc = "done" /\ CoarserIn) =>
        \/ /\ outcome = "returned"
           /\ ret_sci # <<>>
           /\ ret_sci[1].data = sci_in.data
           /\ ret_sci[1].pixeldq = sci_in.pixeldq
           /\ ret_sci[1].cal_step = "SKIPPED"
           /\ ret_dark = <<>>
           /\ avg_src = <<>>
           /\ applied = <<>>
        \/ /\ outcome = "raised"
           /\ SciTotal > DrkTotal
           /\ DarkNGroups(dark_in) < 2

C1_Witness ==
    /\ InCorrection /\ Returned /\ CoarserIn
    /\ SciTotal > DrkTotal
    /\ dark_in.rank = 4
    /\ ret_dark = <<>>
    /\ ret_sci[1].cal_step = "SKIPPED"

SameDark(a, b) ==
    /\ a.rank = b.rank
    /\ a.data = b.data
    /\ a.groupdq = b.groupdq
    /\ a.exp_nframes = b.exp_nframes
    /\ a.exp_groupgap = b.exp_groupgap

\* C2 as stated: whenever do_correction_data returns without taking the skip
\* path, cal_step is COMPLETE and the second value is the dark that was
\* subtracted; the second value is None only on the skip path.
C2_AlwaysReturnsDark ==
    (InCorrection /\ Returned) =>
        /\ ~CoarserIn =>
              /\ ret_sci[1].cal_step = "COMPLETE"
              /\ ret_dark # <<>>
              /\ SameDark(ret_dark[1], applied[1])
        /\ ret_dark = <<>> => CoarserIn

\* C2 amended: whenever do_correction_data returns without taking the skip
\* path, cal_step is COMPLETE; the second value is the dark that was subtracted,
\* marked for saving under dark_output, when averaging ran or dark_output was
\* given, and it is None when the cadences match and no dark_output was given.
C2_ReturnsDarkUnlessDirectUnsaved ==
    (InCorrection /\ Returned /\ ~CoarserIn) =>
        /\ ret_sci[1].cal_step = "COMPLETE"
        /\ applied # <<>>
        /\ IF MatchesIn /\ dark_output = <<>>
           THEN ret_dark = <<>>
           ELSE /\ ret_dark # <<>>
                /\ SameDark(ret_dark[1], applied[1])
                /\ dark_output # <<>> =>
                      ret_dark[1].save /\ ret_dark[1].output_name = dark_output

C2_Witness ==
    /\ InCorrection /\ Returned /\ ~CoarserIn
    /\ MatchesIn
    /\ dark_output # <<>>
    /\ ret_dark # <<>>
    /\ ret_dark[1].save

\* C3: do_correction_data leaves the caller's science object as it was (data,
\* pixeldq and cal_step), on the skip path and on the complete path.
C3_InputUntouched ==
    (InCorrection /\ Returned) =>
        /\ science_data.data = sci_in.data
        /\ science_data.pixeldq = sci_in.pixeldq
        /\ science_data.cal_step = sci_in.cal_step

\* C4: if sci_total_frames > drk_total_frames the dark is extrapolated by
\* ceil((sci_total_frames - drk_total_frames + drk_groupgap) /
\* (drk_nframes + drk_groupgap)) groups, the least g with
\* g * (drk_nframes + drk_groupgap) >= shortfall + drk_groupgap, and the total
\* frames of drk_ngroups + g groups at the dark's cadence is >= sci_total_frames;
\* otherwise the dark is not extrapolated.
C4_ExtrapolationCovers ==
    (InCorrection /\ pc # "start") =>
        LET g == groups_to_extrapolate
            stride == dark_in.exp_nframes + dark_in.exp_groupgap
            need == SciTotal - DrkTotal + dark_in.exp_groupgap
        IN  IF SciTotal > DrkTotal
            THEN /\ g * stride >= need
                 /\ (g - 1) * stride < need
                 /\ total_frames(DarkNGroups(dark_in) + g, dark_in.exp_nframes,
                                 dark_in.exp_groupgap) >= SciTotal
                 /\ DarkNGroups(dark_in) >= 2 =>
                       /\ DarkNGroups(dark_data) = DarkNGroups(dark_in) + g
                       /\ dark_data.exp_ngroups = dark_in.exp_ngroups + g
                       /\ total_frames(DarkNGroups(dark_data), dark_data.exp_nframes,
                                       dark_data.exp_groupgap) >= SciTotal
            ELSE /\ g = 0
                 /\ DarkNGroups(dark_data) = DarkNGroups(dark_in)
                 /\ dark_data.exp_ngroups = dark_in.exp_ngroups

C4_Witness ==
    /\ InCorrection /\ pc = "cadence"
    /\ SciTotal > DrkTotal
    /\ (SciTotal - DrkTotal + dark_in.exp_groupgap)
          % (dark_in.exp_nframes + dark_in.exp_groupgap) # 0
    /\ groups_to_extrapolate >= 1
    /\ DarkNGroups(dark_data) = DarkNGroups(dark_in) + groups_to_extrapolate

\* C5: the dark handed to a frame averager by do_correction_data has at least
\* start + nframes groups for every target group, start = g * (sci_nframes +
\* sci_groupgap): no window reads past the end of its group axis.
C5_WindowsInBounds ==
    (InCorrection /\ avg_src # <<>>) =>
        \A g \in 0..(SciNGroups(sci_in) - 1) :
            g * (sci_in.exp_nframes + sci_in.exp_groupgap) + sci_in.exp_nframes
                <= DarkNGroups(avg_src[1])

\* C6: the dark's NaN values are zero before any arithmetic reads them: after
\* line 130 the dark is what extrapolating the NaN-free dark gives.
C6_NaNReplacedFirst ==
    (InCorrection /\ pc = "subtract") =>
        dark_data.data =
            IF SciTotal > DrkTotal
            THEN extrapolate_dark(ReplaceNaN(dark_in), groups_to_extrapolate).data
            ELSE ReplaceNaN(dark_in).data

Bits == {1, 2, 4, 8}
HasBit(x, b) == (x \div b) % 2 = 1

Subtracted == outcome = "returned" /\ applied # <<>> /\ ret_sci # <<>>

\* C7: the pixeldq returned by subtract_dark has, per pixel, exactly the bits
\* set in the science pixeldq or in the dark flags: the groupdq plane of a 3-D
\* dark, the planes of all integrations of a 4-D dark, applied or not.  The
\* result is the same for every order of the dark integrations and keeps every
\* bit of the science pixeldq.
C7_PixelDqIsUnion ==
    Subtracted =>
        LET dark == applied[1]
            planes == IF dark.rank = 4 THEN 1..Len(dark.data) ELSE {1}
        IN  /\ \A p \in Pixels, b \in Bits :
                  HasBit(ret_sci[1].pixeldq[p], b) <=>
                      \/ HasBit(sci_in.pixeldq[p], b)
                      \/ \E i \in planes : HasBit(dark.groupdq[i][p], b)
            /\ \A p \in Pixels : ret_sci[1].pixeldq[p] < 16
            /\ \A perm \in Permutations(DOMAIN dark.groupdq) :
                  subtract_dark(sci_in,
                      [dark EXCEPT !.groupdq = [i \in DOMAIN dark.groupdq |->
                                                   dark.groupdq[perm[i]]]]).pixeldq
                      = ret_sci[1].pixeldq

C7_Witness ==
    /\ call.op = "subtract_dark" /\ Subtracted
    /\ applied[1].rank = 4
    /\ Len(applied[1].data) > SciNInts(sci_in)
    /\ \E p \in Pixels :
          /\ applied[1].groupdq[1][p] = 1
          /\ applied[1].groupdq[Len(applied[1].data)][p] = 2
          /\ sci_in.pixeldq[p] = 0
          /\ ret_sci[1].pixeldq[p] = 3

Min(a, b) == IF a < b THEN a ELSE b

\* the windows of the frame averagers as the claims state them: group g is the
\* copy (nframes = 1) or the mean of frames [g*(nframes+groupgap), +nframes)
WindowMean(cube, g, nframes, groupgap, p) ==
    LET start == g * (nframes + groupgap)
        frames == {cube[k + 1][p] : k \in start..(start + nframes - 1)}
    IN  IF nframes = 1 THEN cube[start + 1][p]
        ELSE IF \E f \in frames : f.nan THEN NaN
        ELSE FNum(FSum(SubSeq(cube, start + 1, start + nframes), p).v \div nframes)

\* C8: average_dark_frames_4d returns min(dark_nints, nints) integrations of
\* ngroups groups, each integration frame-averaged from the same integration of
\* the source; no integration of the result is left unaveraged.
C8_OnlyAveragedIntegrations ==
    (call.op = "average_dark_frames_4d" /\ Returned) =>
        /\ Len(ret_dark[1].data) = Min(Len(dark_in.data), call.nints)
        /\ \A it \in 1..Len(ret_dark[1].data) :
              /\ Len(ret_dark[1].data[it]) = call.ngroups
              /\ total_frames(call.ngroups, call.nframes, call.groupgap)
                    <= DarkNGroups(dark_in) =>
                    \A g \in 1..call.ngroups, p \in Pixels :
                        ret_dark[1].data[it][g][p] =
                            WindowMean(dark_in.data[it], g - 1, call.nframes,
                                       call.groupgap, p)

\* C9: data[i, j] of subtract_dark's output is science data[i, j] minus group j
\* of the selected dark: the one cube of a 3-D dark; integration i of a 4-D
\* dark if i < dark_nints and int_start = 1 (1 when exp_intstart is absent);
\* the last dark integration in every other case.
C9_SubtractsSelectedDark ==
    Subtracted =>
        LET dark == applied[1]
            first == sci_in.exp_intstart = None \/ sci_in.exp_intstart = 1
            sel(i) == IF dark.rank = 3 THEN dark.data[1]
                      ELSE IF i <= Len(dark.data) /\ first THEN dark.data[i]
                      ELSE dark.data[Len(dark.data)]
        IN  /\ Len(ret_sci[1].data) = Len(sci_in.data)
            /\ \A i \in 1..Len(sci_in.data) :
                  /\ Len(ret_sci[1].data[i]) = Len(sci_in.data[i])
                  /\ \A j \in 1..Len(sci_in.data[i]), p \in Pixels :
                        LET s == sci_in.data[i][j][p]
                            d == sel(i)[j][p]
                            r == ret_sci[1].data[i][j][p]
                        IN  IF d.nan THEN r.nan
                            ELSE ~r.nan /\ r.v = s.v - d.v

C9_Witness ==
    /\ call.op = "subtract_dark" /\ Subtracted
    /\ applied[1].rank = 4
    /\ Len(applied[1].data) = 2
    /\ SciNInts(sci_in) = 2
    /\ SciNGroups(sci_in) = 2
    /\ sci_in.exp_intstart = 2
    /\ \A p \in Pixels :
          /\ ~applied[1].data[2][1][p].nan
          /\ ret_sci[1].data[1][1][p].v
                = sci_in.data[1][1][p].v - applied[1].data[2][1][p].v
          /\ applied[1].data[2][1][p] # applied[1].data[1][1][p]

\* C10: extrapolate_dark(dark, n) on a dark of N >= 2 groups keeps the first N
\* groups of every integration, appends n groups, new group k being
\* group[N-1] + k * (group[N-1] - group[N-2]) at every pixel, and adds n to
\* exp_ngroups, which stays equal to the length of the group axis.
C10_ExtrapolationGrowth ==
    (call.op = "extrapolate_dark" /\ Returned /\ DarkNGroups(dark_in) >= 2) =>
        LET N == DarkNGroups(dark_in)
            n == call.ngroups
        IN  /\ Len(dark_data.data) = Len(dark_in.data)
            /\ dark_data.exp_ngroups = dark_in.exp_ngroups + n
            /\ dark_in.exp_ngroups = N => dark_data.exp_ngroups = DarkNGroups(dark_data)
            /\ \A i \in 1..Len(dark_in.data) :
                  /\ Len(dark_data.data[i]) = N + n
                  /\ \A g \in 1..N : dark_data.data[i][g] = dark_in.data[i][g]
                  /\ \A k \in 1..n, p \in Pixels :
                        LET last == dark_in.data[i][N][p]
                            prev == dark_in.data[i][N - 1][p]
                            new == dark_data.data[i][N + k][p]
                        IN  IF last.nan \/ prev.nan THEN new.nan
                            ELSE ~new.nan /\ new.v = last.v + k * (last.v - prev.v)

C10_Witness ==
    /\ call.op = "extrapolate_dark" /\ Returned
    /\ dark_in.rank = 4
    /\ Len(dark_in.data) = 2
    /\ call.ngroups = 2
    /\ DarkNGroups(dark_in) = 3
    /\ DarkNGroups(dark_data) = 5
    /\ \A p \in Pixels : ~dark_data.data[2][5][p].nan

====
